---- MODULE Spec2Model ----
(***************************************************************************)
(* The five standalone scripts of mlflow-training, each modelled as the    *)
(* instruction list of its module body and executed by one interpreter:    *)
(* one action per kind of statement.  The tracking client (mlflow), the    *)
(* split (sklearn train_test_split) and the data frames (pandas) are       *)
(* modelled by what the scripts rely on: the active-run stack, the seeded  *)
(* permutation, and frames as objects on a heap that variables refer to.   *)
(* Every external call may raise instead of returning.                     *)
(***************************************************************************)
EXTENDS Integers, Sequences, FiniteSets, TLC

\* Largest number of rows a loaded dataset has in the model.
MaxRows == 3
\* Dataset contents vary over variants 0..MaxVariant of the downloaded CSV.
MaxVariant == 0
\* Largest version number the registry hands out.
MaxVersion == 1

Range(s) == {s[k] : k \in 1..Len(s)}

Scripts ==
  {"Legendary_pokemon_predictor", "Pokemon_detective", "example1_basic",
   "example2_hyperparameter_tuning", "example3_model_registry"}

\* One statement: op is the call made, line its source line, key/val/val2/src
\* its literal arguments (src names the variable an argument is read from).
I(op, line, key, val, val2, src) ==
  [op |-> op, line |-> line, key |-> key, val |-> val, val2 |-> val2, val3 |-> 0,
   src |-> src]

\* RandomForestClassifier(n_estimators, max_depth, random_state): src names where
\* the first two come from ("var" the local variables, "params" the loop's dict,
\* "lit" the literals n and d); rs is the literal random_state, or key is
\* "random_state" when it is read from that variable.
Forest(line, src, key, n, d, rs) ==
  [op |-> "RandomForestClassifier", line |-> line, key |-> key, val |-> n,
   val2 |-> d, val3 |-> rs, src |-> src]

S(op, line) == I(op, line, "", 0, 0, "")

-----------------------------------------------------------------------------
(* The scripts *)

Legendary_pokemon_predictor ==
  << I("set_tracking_uri", 15, "http://localhost:5000", 0, 0, ""),
     I("set_experiment", 16, "Pokemon_Legendary_Predictor", 0, 0, ""),
     S("print", 18),
     S("print", 19),
     S("print", 24),
     I("read_csv", 25, "df", 0, 0, ""),
     I("select", 31, "X", 0, 0, "df"),
     I("select", 32, "y", 0, 0, "df"),
     I("train_test_split", 35, "X", 20, 42, "y"),
     I("start_run", 38, "Legendary_Hunter_v1", 0, 0, ""),
     I("assign", 41, "n_estimators", 100, 0, ""),
     I("assign", 42, "max_depth", 15, 0, ""),
     I("log_param", 44, "n_estimators", 0, 0, "var"),
     I("log_param", 45, "max_depth", 0, 0, "var"),
     I("log_param", 46, "features_used", 0, 0, "features"),
     S("print", 49),
     Forest(50, "var", "", 0, 0, 42),
     S("fit", 51),
     S("predict", 54),
     I("metric", 56, "accuracy", 0, 0, ""),
     I("metric", 57, "precision", 0, 0, "binary"),
     I("metric", 58, "recall", 0, 0, "binary"),
     S("print", 60),
     I("log_metric", 62, "accuracy", 0, 0, ""),
     I("log_metric", 63, "precision", 0, 0, ""),
     I("log_metric", 64, "recall", 0, 0, ""),
     I("metric", 68, "confusion_matrix", 0, 0, ""),
     S("local", 70),
     I("savefig", 78, "confusion_matrix.png", 0, 0, ""),
     I("log_artifact", 79, "confusion_matrix.png", 0, 0, ""),
     I("log_model", 83, "model", 0, 0, ""),
     S("print", 85),
     S("exit_with", 85) >>

\* A variant of the script that splits with another seed.
Pokemon_detective_data_reseeded ==
  << I("read_csv", 7, "df", 0, 0, ""),
     I("derive", 8, "Total_Stats", 0, 0, "df"),
     I("select", 10, "X", 0, 0, "df"),
     I("select", 11, "y", 0, 0, "df"),
     I("train_test_split", 12, "X", 20, 43, "y") >>

Pokemon_detective_data ==
  << I("read_csv", 7, "df", 0, 0, ""),
     I("derive", 8, "Total_Stats", 0, 0, "df"),
     I("select", 10, "X", 0, 0, "df"),
     I("select", 11, "y", 0, 0, "df"),
     I("train_test_split", 12, "X", 20, 42, "y") >>

Pokemon_detective_reveal ==
  << S("print", 15),
     I("open", 16, "my_model.pkl", 0, 0, ""),
     S("pickle_load", 17),
     S("predict", 20),
     I("copy", 21, "results", 0, 0, "X_test"),
     I("setcol", 22, "Actual", 0, 0, "y_test"),
     I("setcol", 23, "Predicted", 0, 0, "predictions"),
     I("setcol", 24, "Name", 0, 0, "df"),
     S("print", 26),
     I("filter", 28, "impostors", 0, 0, "results"),
     S("print", 29) >>

Pokemon_detective == Pokemon_detective_data \o Pokemon_detective_reveal

example1_basic ==
  << I("set_tracking_uri", 21, "http://localhost:5000", 0, 0, ""),
     S("local", 25),
     I("set_experiment", 30, "iris_classification_demo", 0, 0, ""),
     S("load_iris", 33),
     I("select", 34, "X", 0, 0, "iris.data"),
     I("alias", 35, "y", 0, 0, "iris.target"),
     I("train_test_split", 38, "X", 20, 42, "y"),
     I("start_run", 43, "rf_classifier_v1", 0, 0, ""),
     I("assign", 45, "n_estimators", 100, 0, ""),
     I("assign", 46, "max_depth", 10, 0, ""),
     I("assign", 47, "random_state", 42, 0, ""),
     I("log_param", 50, "n_estimators", 0, 0, "var"),
     I("log_param", 51, "max_depth", 0, 0, "var"),
     I("log_param", 52, "random_state", 0, 0, "var"),
     Forest(55, "var", "random_state", 0, 0, 0),
     S("fit", 60),
     S("predict", 63),
     I("metric", 66, "accuracy", 0, 0, ""),
     I("metric", 67, "precision", 0, 0, "weighted"),
     I("metric", 68, "recall", 0, 0, "weighted"),
     I("log_metric", 71, "accuracy", 0, 0, ""),
     I("log_metric", 72, "precision", 0, 0, ""),
     I("log_metric", 73, "recall", 0, 0, ""),
     I("log_model", 76, "model", 0, 0, ""),
     I("log_text", 83, "training_log.txt", 0, 0, ""),
     S("print", 85),
     S("print", 86),
     S("print", 87),
     S("exit_with", 87) >>

\* A variant of the grid that lost its last entry.
param_grid_short ==
  << [n_estimators |-> 50, max_depth |-> 5],
     [n_estimators |-> 100, max_depth |-> 10],
     [n_estimators |-> 200, max_depth |-> 15],
     [n_estimators |-> 100, max_depth |-> 20] >>

param_grid ==
  << [n_estimators |-> 50, max_depth |-> 5],
     [n_estimators |-> 100, max_depth |-> 10],
     [n_estimators |-> 200, max_depth |-> 15],
     [n_estimators |-> 100, max_depth |-> 20],
     [n_estimators |-> 150, max_depth |-> 12] >>

example2_hyperparameter_tuning ==
  << I("set_tracking_uri", 19, "http://localhost:5000", 0, 0, ""),
     I("set_experiment", 20, "hyperparameter_tuning", 0, 0, ""),
     S("load_iris", 23),
     I("alias", 24, "X", 0, 0, "iris.data"),
     I("alias", 25, "y", 0, 0, "iris.target"),
     I("train_test_split", 27, "X", 20, 42, "y"),
     S("for", 41),
     I("start_run", 42, "rf_tuning_run_", 1, 0, "i"),
     S("log_params", 44),
     Forest(47, "params", "", 0, 0, 42),
     S("fit", 52),
     S("predict", 55),
     I("metric", 56, "accuracy", 0, 0, ""),
     I("log_metric", 59, "accuracy", 0, 0, ""),
     I("log_model", 62, "model", 0, 0, ""),
     S("print", 68),
     S("exit_with", 69),
     S("end_for", 69),
     S("print", 71) >>

example3_setup ==
  << I("set_tracking_uri", 18, "http://localhost:5000", 0, 0, ""),
     I("set_experiment", 19, "model_registry_demo", 0, 0, ""),
     S("load_iris", 22),
     I("train_test_split", 23, "iris.data", 20, 42, "iris.target"),
     I("start_run", 28, "production_ready_model", 0, 0, "") >>

example3_train ==
  << Forest(29, "lit", "", 100, 10, 42),
     S("fit", 30),
     S("predict", 32),
     I("metric", 32, "accuracy", 0, 0, "") >>

example3_log ==
  << I("log_param", 34, "n_estimators", 100, 0, "lit"),
     I("log_param", 35, "max_depth", 10, 0, "lit"),
     I("log_metric", 36, "accuracy", 0, 0, ""),
     I("log_model", 39, "model", 0, 0, "") >>

example3_register ==
  << S("active_run", 46),
     S("try", 50),
     I("register_model", 51, "iris_classifier", 0, 0, "model_uri"),
     I("print", 56, "", 0, 0, "registered_model"),
     S("print", 57),
     S("except", 58),
     S("print", 59),
     S("print", 60),
     S("end_try", 60),
     S("exit_with", 60) >>

\* A variant of the script that logs before it trains.
example3_log_before_train ==
  example3_setup \o example3_log \o example3_train \o example3_register

example3_model_registry ==
  example3_setup \o example3_train \o example3_log \o example3_register

Program(s) ==
  CASE s = "Legendary_pokemon_predictor" -> Legendary_pokemon_predictor
    [] s = "Pokemon_detective" -> Pokemon_detective
    [] s = "example1_basic" -> example1_basic
    [] s = "example2_hyperparameter_tuning" -> example2_hyperparameter_tuning
    [] s = "example3_model_registry" -> example3_model_registry

-----------------------------------------------------------------------------
(* Datasets and frames.  A frame is a sequence of rows; a row carries its   *)
(* index label and its cells by column name.  Booleans are 0/1 and names    *)
(* are numbered, so every cell is an integer.                               *)

StatCols == <<"HP", "Attack", "Defense", "Sp. Atk", "Sp. Def", "Speed">>

PokemonCols == Range(StatCols) \cup {"Name", "Generation", "Legendary"}

IrisFeatureNames ==
  <<"sepal length (cm)", "sepal width (cm)", "petal length (cm)", "petal width (cm)">>

\* The cell of column c in row i (0-based) of variant k of the downloaded CSV.
PokemonCell(c, i, k) ==
  CASE c = "Name" -> i + 1
    [] c = "HP" -> 1 + ((i + k) % 3)
    [] c = "Attack" -> 1 + ((2 * i + k) % 2)
    [] c = "Defense" -> 1 + (i % 2)
    [] c = "Sp. Atk" -> 2
    [] c = "Sp. Def" -> 1 + ((i + 1) % 2)
    [] c = "Speed" -> 1 + ((i + 2 * k) % 3)
    [] c = "Generation" -> 1 + (i % 2)
    [] c = "Legendary" -> IF (i + k) % 3 = 0 THEN 1 ELSE 0

\* pd.read_csv(url): n rows with the default index 0..n-1.
read_csv(n, k) ==
  [i \in 1..n |-> [index |-> i - 1,
                   cols |-> [c \in PokemonCols |-> PokemonCell(c, i - 1, k)]]]

\* load_iris(): .data (four feature columns) and .target (classes in blocks).
load_iris_data(n) ==
  [i \in 1..n |-> [index |-> i - 1,
                   cols |-> [c \in Range(IrisFeatureNames) |->
                               IF c = "sepal length (cm)" THEN 5 + (i % 2) ELSE 1 + (i % 3)]]]

load_iris_target(n) ==
  [i \in 1..n |-> [index |-> i - 1, cols |-> [c \in {"target"} |-> (3 * (i - 1)) \div n]]]

\* The columns each script takes for its feature matrix and its label vector.
features(s) ==
  CASE s = "Legendary_pokemon_predictor" -> StatCols
    [] s = "Pokemon_detective" -> StatCols \o <<"Generation", "Total_Stats">>
    [] OTHER -> IrisFeatureNames

target(s) ==
  IF s \in {"Legendary_pokemon_predictor", "Pokemon_detective"} THEN "Legendary" ELSE "target"

HasColumns(frame, columns) ==
  \A k \in 1..Len(frame) : Range(columns) \subseteq DOMAIN frame[k].cols

\* frame[columns]: a new frame with the same index and the listed columns.
Select(frame, columns) ==
  [k \in 1..Len(frame) |->
     [index |-> frame[k].index, cols |-> [c \in Range(columns) |-> frame[k].cols[c]]]]

\* A variant of the sum that leaves Speed out.
TotalStatsWithoutSpeed(cols) ==
  cols["HP"] + cols["Attack"] + cols["Defense"] + cols["Sp. Atk"] + cols["Sp. Def"]

\* df['HP'] + df['Attack'] + df['Defense'] + df['Sp. Atk'] + df['Sp. Def'] + df['Speed']
TotalStats(cols) ==
  cols["HP"] + cols["Attack"] + cols["Defense"] + cols["Sp. Atk"] + cols["Sp. Def"]
    + cols["Speed"]

\* frame[name] = values, in place: values[k] is the cell of row k.
SetColumn(frame, name, values) ==
  [k \in 1..Len(frame) |->
     [frame[k] EXCEPT !.cols = (name :> values[k]) @@ frame[k].cols]]

\* The cell pandas aligns to index label idx: -1 stands for NaN (no such label).
Aligned(frame, idx, col) ==
  LET ks == {k \in 1..Len(frame) : frame[k].index = idx}
  IN IF ks = {} THEN -1 ELSE frame[CHOOSE k \in ks : TRUE].cols[col]

Labels(frame, col) == [k \in 1..Len(frame) |-> frame[k].cols[col]]

Index(frame) == [k \in 1..Len(frame) |-> frame[k].index]

-----------------------------------------------------------------------------
(* train_test_split(X, y, test_size, random_state): the rows are permuted   *)
(* by a generator seeded with random_state; the first n_test positions of   *)
(* the permutation are the test rows, the rest the train rows.              *)

Swap(p, a, b) == [p EXCEPT ![a] = p[b], ![b] = p[a]]

NextRandom(s) == (s * 75 + 74) % 65537

RECURSIVE Shuffle(_, _, _)
Shuffle(p, s, i) ==
  IF i <= 1 THEN p
  ELSE LET s2 == NextRandom(s)
       IN Shuffle(Swap(p, i, 1 + (s2 % i)), s2, i - 1)

\* rng.permutation(n) of positions 0..n-1 for the generator seeded with seed.
Permutation(seed, n) == Shuffle([k \in 1..n |-> k - 1], seed, n)

\* ceil(test_size * n) for test_size given in percent.
NTest(pct, n) == (pct * n + 99) \div 100

Take(frame, positions) == [k \in 1..Len(positions) |-> frame[positions[k] + 1]]

CanSplit(X, y, pct) ==
  /\ Len(X) = Len(y)
  /\ NTest(pct, Len(X)) >= 1
  /\ Len(X) - NTest(pct, Len(X)) >= 1

train_test_split(X, y, pct, seed) ==
  LET n == Len(X)
      perm == Permutation(seed, n)
      ind_test == SubSeq(perm, 1, NTest(pct, n))
      ind_train == SubSeq(perm, NTest(pct, n) + 1, n)
  IN [X_train |-> Take(X, ind_train), X_test |-> Take(X, ind_test),
      y_train |-> Take(y, ind_train), y_test |-> Take(y, ind_test)]

-----------------------------------------------------------------------------
(* Metrics.  A score is the fraction num/den, not reduced.                  *)

Count(y_true, y_pred, a, b) ==
  Cardinality({k \in 1..Len(y_true) : y_true[k] = a /\ y_pred[k] = b})

Support(y, c) == Cardinality({k \in 1..Len(y) : y[k] = c})

accuracy_score(y_true, y_pred) ==
  [num |-> Cardinality({k \in 1..Len(y_true) : y_true[k] = y_pred[k]}),
   den |-> Len(y_true)]

\* Per-class precision and recall; a zero denominator scores 0.
ClassPrecision(y_true, y_pred, c) ==
  IF Support(y_pred, c) = 0 THEN [num |-> 0, den |-> 1]
  ELSE [num |-> Count(y_true, y_pred, c, c), den |-> Support(y_pred, c)]

ClassRecall(y_true, y_pred, c) ==
  IF Support(y_true, c) = 0 THEN [num |-> 0, den |-> 1]
  ELSE [num |-> Count(y_true, y_pred, c, c), den |-> Support(y_true, c)]

RECURSIVE WeightedSum(_, _, _)
\* sum over the classes cs of weight[c] * score[c], as one fraction.
WeightedSum(cs, weight, score) ==
  IF cs = {} THEN [num |-> 0, den |-> 1]
  ELSE LET c == CHOOSE x \in cs : \A z \in cs : x <= z
           rest == WeightedSum(cs \ {c}, weight, score)
       IN [num |-> weight[c] * score[c].num * rest.den + rest.num * score[c].den,
           den |-> score[c].den * rest.den]

Classes(y_true, y_pred) == Range(y_true) \cup Range(y_pred)

\* score[c] is the score of class c.
Weighted(y_true, y_pred, score) ==
  LET cs == Classes(y_true, y_pred)
      s == WeightedSum(cs, [c \in cs |-> Support(y_true, c)], score)
  IN [num |-> s.num, den |-> s.den * Len(y_true)]

precision_score(y_true, y_pred, average) ==
  IF average = "weighted"
  THEN Weighted(y_true, y_pred,
                [c \in Classes(y_true, y_pred) |-> ClassPrecision(y_true, y_pred, c)])
  ELSE ClassPrecision(y_true, y_pred, 1)

recall_score(y_true, y_pred, average) ==
  IF average = "weighted"
  THEN Weighted(y_true, y_pred,
                [c \in Classes(y_true, y_pred) |-> ClassRecall(y_true, y_pred, c)])
  ELSE ClassRecall(y_true, y_pred, 1)

confusion_matrix(y_true, y_pred) ==
  LET ls == Range(y_true) \cup Range(y_pred)
  IN [a \in ls |-> [b \in ls |-> Count(y_true, y_pred, a, b)]]

-----------------------------------------------------------------------------
(* The tracking client.  runs is what the server holds for this execution,  *)
(* active the client's stack of active runs (run ids are positions in runs).*)

EmptyFn == [x \in {} |-> 0]

NewRun(name, num, explicit) ==
  [name |-> name, num |-> num, explicit |-> explicit, status |-> "RUNNING",
   params |-> EmptyFn, metrics |-> EmptyFn, artifacts |-> {}, models |-> <<>>]

ActiveRun(m) == IF m.active = <<>> THEN 0 ELSE m.active[Len(m.active)]

\* mlflow.start_run(run_name=...)
start_run(m, name, num) ==
  [m EXCEPT !.runs = Append(@, NewRun(name, num, TRUE)),
            !.active = Append(@, Len(m.runs) + 1)]

\* A logging call with no active run starts one itself.
get_or_start_run(m) ==
  IF m.active # <<>> THEN m
  ELSE [m EXCEPT !.runs = Append(@, NewRun("", 0, FALSE)),
                 !.active = Append(@, Len(m.runs) + 1)]

log_param(m, k, v) ==
  LET m2 == get_or_start_run(m)
  IN [m2 EXCEPT !.runs[ActiveRun(m2)].params = (k :> v) @@ @]

log_metric(m, k, v) ==
  LET m2 == get_or_start_run(m)
  IN [m2 EXCEPT !.runs[ActiveRun(m2)].metrics = (k :> v) @@ @]

log_artifact(m, path) ==
  LET m2 == get_or_start_run(m)
  IN [m2 EXCEPT !.runs[ActiveRun(m2)].artifacts = @ \cup {path}]

log_model(m, model, path) ==
  LET m2 == get_or_start_run(m)
  IN [m2 EXCEPT !.runs[ActiveRun(m2)].models = Append(@, model),
                !.runs[ActiveRun(m2)].artifacts = @ \cup {path}]

\* mlflow.end_run(status): what leaving the with-block calls.
end_run(m, status) ==
  IF m.active = <<>> THEN m
  ELSE [m EXCEPT !.runs[ActiveRun(m)].status = status,
                 !.active = SubSeq(@, 1, Len(@) - 1)]

\* The status the with-block's exit gives the run.
ExitStatus(raised) == IF raised THEN "FAILED" ELSE "FINISHED"

register_model(m, run, name, version) ==
  [m EXCEPT !.registry = Append(@, [name |-> name, version |-> version, run |-> run])]

-----------------------------------------------------------------------------
(* Block structure of a script: the with-block runs from start_run to its   *)
(* exit_with, the try-block from try to except, the loop from for to        *)
(* end_for.                                                                 *)

Positions(prog, op) == {k \in 1..Len(prog) : prog[k].op = op}

Max(xs) == CHOOSE x \in xs : \A z \in xs : z <= x
Min(xs) == CHOOSE x \in xs : \A z \in xs : x <= z

\* The start_run whose with-block holds position p, or 0.
WithStart(prog, p) ==
  LET ss == {s \in Positions(prog, "start_run") :
               s < p /\ \A j \in (s + 1)..(p - 1) : prog[j].op # "exit_with"}
  IN IF ss = {} \/ p > Len(prog) THEN 0 ELSE Max(ss)

\* The try whose protected statements hold position p, or 0.
TryStart(prog, p) ==
  LET ts == {s \in Positions(prog, "try") :
               s < p /\ \A j \in (s + 1)..p : prog[j].op # "except"}
  IN IF ts = {} \/ p > Len(prog) THEN 0 ELSE Max(ts)

\* A variant in which the try covers everything before its except clause.
InTryFromTop(prog, p) ==
  /\ Positions(prog, "except") # {}
  /\ p < Min(Positions(prog, "except"))

\* A variant in which nothing is protected by a try.
InTryNever(prog, p) == FALSE

InTry(prog, p) == TryStart(prog, p) > WithStart(prog, p)

InWith(prog, p) == WithStart(prog, p) > TryStart(prog, p)

Following(prog, p, op) == Min({k \in Positions(prog, op) : k > p})

Preceding(prog, p, op) == Max({k \in Positions(prog, op) : k < p})

\* The calls into a library, the file system or the server: each may raise.
ExternalOps ==
  {"set_experiment", "read_csv", "load_iris", "train_test_split", "start_run",
   "log_param", "log_params", "fit", "predict", "metric", "log_metric", "savefig",
   "log_artifact", "log_model", "log_text", "register_model", "open", "pickle_load"}

LogOps == {"log_param", "log_params", "log_metric", "log_artifact", "log_text", "log_model"}

-----------------------------------------------------------------------------
(* State of one execution of one script.                                    *)

VARIABLES
  script,    \* the script being executed
  pc,        \* position of the next statement in Program(script)
  exc,       \* "raised" while an exception is propagating, else "none"
  outcome,   \* "running", "ok" (ran to its end) or "error" (ended by an exception)
  trace,     \* the calls made so far, in order; ok = FALSE for a call that raised
  env,       \* frame variables: name -> object on the heap (0 = unbound)
  heap,      \* the frames, by object
  locals,    \* the other local variables of the script
  mlflow,    \* the tracking client and what it has sent to the server
  files,     \* local files written by the script
  prev       \* the split of the previous execution, if it got that far

vars == <<script, pc, exc, outcome, trace, env, heap, locals, mlflow, files, prev>>

FrameVars ==
  {"df", "iris.data", "iris.target", "X", "y", "X_train", "X_test", "y_train",
   "y_test", "results", "impostors"}

SplitVars == {"X_train", "X_test", "y_train", "y_test"}

NoLocals ==
  [hyper |-> EmptyFn, params |-> <<>>, i |-> 0, it |-> 0, model |-> <<>>,
   y_pred |-> <<>>, metrics |-> EmptyFn, cm |-> <<>>, run_id |-> 0,
   registered |-> <<>>, loaded |-> <<>>, f |-> ""]

NoClient ==
  [tracking_uri |-> "", experiment |-> "", runs |-> <<>>, active |-> <<>>,
   registry |-> <<>>]

Val(name) == heap[env[name]]

Bound(name) == env[name] # 0

Prog == Program(script)

Cur == Prog[pc]

At(op) ==
  /\ outcome = "running"
  /\ exc = "none"
  /\ pc <= Len(Prog)
  /\ Cur.op = op

Event(ins, v, run, ok) ==
  [op |-> ins.op, line |-> ins.line, key |-> ins.key, val |-> v, run |-> run, ok |-> ok]

Ev(v) == Event(Cur, v, ActiveRun(mlflow), TRUE)

Step(ev) ==
  /\ pc' = pc + 1
  /\ trace' = Append(trace, ev)
  /\ UNCHANGED <<script, exc, outcome, prev>>

Jump(to) ==
  /\ pc' = to
  /\ UNCHANGED <<script, exc, outcome, prev, trace>>

Columns(ins) == IF ins.key = "X" THEN features(script) ELSE <<target(script)>>

\* What a statement needs to return normally; without it the call raises.
Ready(ins) ==
  CASE ins.op = "select" -> Bound(ins.src) /\ HasColumns(Val(ins.src), Columns(ins))
    [] ins.op = "derive" -> Bound(ins.src) /\ HasColumns(Val(ins.src), StatCols)
    [] ins.op = "train_test_split" ->
         Bound(ins.key) /\ Bound(ins.src) /\ CanSplit(Val(ins.key), Val(ins.src), ins.val)
    [] ins.op = "start_run" -> mlflow.active = <<>>
    [] ins.op = "log_param" -> ins.src = "var" => ins.key \in DOMAIN locals.hyper
    [] ins.op = "log_params" -> locals.params # <<>>
    [] ins.op = "RandomForestClassifier" ->
         /\ ins.src = "var" => {"n_estimators", "max_depth"} \subseteq DOMAIN locals.hyper
         /\ ins.src = "params" => locals.params # <<>>
         /\ ins.key = "random_state" => "random_state" \in DOMAIN locals.hyper
    [] ins.op = "fit" -> locals.model # <<>> /\ Bound("X_train") /\ Bound("y_train")
    [] ins.op = "predict" ->
         locals.model # <<>> /\ locals.model[1].fitted /\ Bound("X_test")
    [] ins.op = "metric" -> Bound("y_test") /\ Len(locals.y_pred) = Len(Val("y_test"))
    [] ins.op = "log_metric" -> ins.key \in DOMAIN locals.metrics
    [] ins.op = "log_artifact" -> ins.key \in files
    [] ins.op = "log_model" -> locals.model # <<>>
    [] ins.op = "active_run" -> mlflow.active # <<>>
    [] ins.op = "register_model" ->
         /\ locals.run_id \in 1..Len(mlflow.runs)
         /\ "model" \in mlflow.runs[locals.run_id].artifacts
    [] ins.op = "pickle_load" -> locals.f # ""
    [] ins.op = "copy" -> Bound(ins.src)
    [] ins.op = "setcol" ->
         /\ Bound("results")
         /\ ins.src = "predictions" => Len(locals.y_pred) = Len(Val("results"))
         /\ ins.src # "predictions" => Bound(ins.src)
    [] ins.op = "filter" ->
         Bound(ins.src) /\ HasColumns(Val(ins.src), <<"Predicted", "Actual">>)
    [] ins.op = "print" -> ins.src = "registered_model" => locals.registered # <<>>
    [] OTHER -> TRUE

Do(op) == At(op) /\ Ready(Cur)

-----------------------------------------------------------------------------
(* The statements.                                                          *)

SetTrackingUri ==
  /\ Do("set_tracking_uri")
  /\ mlflow' = [mlflow EXCEPT !.tracking_uri = Cur.key]
  /\ Step(Ev(0))
  /\ UNCHANGED <<env, heap, locals, files>>

SetExperiment ==
  /\ Do("set_experiment")
  /\ mlflow' = [mlflow EXCEPT !.experiment = Cur.key]
  /\ Step(Ev(0))
  /\ UNCHANGED <<env, heap, locals, files>>

PrintLine ==
  /\ Do("print")
  /\ Step(IF Cur.src = "registered_model"
          THEN [Ev(locals.registered[1].version) EXCEPT !.key = locals.registered[1].name]
          ELSE Ev(0))
  /\ UNCHANGED <<env, heap, locals, mlflow, files>>

\* Statements with no effect on the modelled state (os.environ, the plot).
Local ==
  /\ Do("local")
  /\ Step(Ev(0))
  /\ UNCHANGED <<env, heap, locals, mlflow, files>>

ReadCsv ==
  /\ Do("read_csv")
  /\ \E n \in 1..MaxRows, k \in 0..MaxVariant :
       /\ heap' = Append(heap, read_csv(n, k))
       /\ locals' = [locals EXCEPT !.loaded = <<read_csv(n, k)>>]
  /\ env' = [env EXCEPT ![Cur.key] = Len(heap) + 1]
  /\ Step(Ev(0))
  /\ UNCHANGED <<mlflow, files>>

LoadIris ==
  /\ Do("load_iris")
  /\ \E n \in 1..MaxRows :
       /\ heap' = heap \o <<load_iris_data(n), load_iris_target(n)>>
       /\ locals' = [locals EXCEPT !.loaded = <<load_iris_data(n), load_iris_target(n)>>]
  /\ env' = [env EXCEPT !["iris.data"] = Len(heap) + 1, !["iris.target"] = Len(heap) + 2]
  /\ Step(Ev(0))
  /\ UNCHANGED <<mlflow, files>>

\* df['Total_Stats'] = ...: a column added to df in place.
Derive ==
  /\ Do("derive")
  /\ LET fr == Val(Cur.src)
     IN heap' = [heap EXCEPT ![env[Cur.src]] =
                   SetColumn(fr, Cur.key, [k \in 1..Len(fr) |-> TotalStats(fr[k].cols)])]
  /\ Step(Ev(0))
  /\ UNCHANGED <<env, locals, mlflow, files>>

SelectColumns ==
  /\ Do("select")
  /\ heap' = Append(heap, Select(Val(Cur.src), Columns(Cur)))
  /\ env' = [env EXCEPT ![Cur.key] = Len(heap) + 1]
  /\ Step(Ev(0))
  /\ UNCHANGED <<locals, mlflow, files>>

\* name = other: both names refer to the same object.
Alias ==
  /\ Do("alias")
  /\ env' = [env EXCEPT ![Cur.key] = env[Cur.src]]
  /\ Step(Ev(0))
  /\ UNCHANGED <<heap, locals, mlflow, files>>

Split ==
  /\ Do("train_test_split")
  /\ LET r == train_test_split(Val(Cur.key), Val(Cur.src), Cur.val, Cur.val2)
     IN heap' = heap \o <<r.X_train, r.X_test, r.y_train, r.y_test>>
  /\ env' = [env EXCEPT !["X_train"] = Len(heap) + 1, !["X_test"] = Len(heap) + 2,
                        !["y_train"] = Len(heap) + 3, !["y_test"] = Len(heap) + 4]
  /\ Step(Ev(0))
  /\ UNCHANGED <<locals, mlflow, files>>

StartRun ==
  /\ Do("start_run")
  /\ LET num == IF Cur.src = "i" THEN locals.i + Cur.val ELSE 0
     IN /\ mlflow' = start_run(mlflow, Cur.key, num)
        /\ Step(Event(Cur, num, ActiveRun(mlflow'), TRUE))
  /\ UNCHANGED <<env, heap, locals, files>>

Assign ==
  /\ Do("assign")
  /\ locals' = [locals EXCEPT !.hyper = (Cur.key :> Cur.val) @@ @]
  /\ Step(Ev(Cur.val))
  /\ UNCHANGED <<env, heap, mlflow, files>>

LogParam ==
  /\ Do("log_param")
  /\ LET v == CASE Cur.src = "var" -> locals.hyper[Cur.key]
                [] Cur.src = "features" -> Len(features(script))
                [] OTHER -> Cur.val
     IN /\ mlflow' = log_param(mlflow, Cur.key, v)
        /\ Step(Event(Cur, v, ActiveRun(mlflow'), TRUE))
  /\ UNCHANGED <<env, heap, locals, files>>

LogParams ==
  /\ Do("log_params")
  /\ LET d == locals.params[1]
     IN mlflow' = log_param(log_param(mlflow, "n_estimators", d.n_estimators),
                            "max_depth", d.max_depth)
  /\ Step(Event(Cur, 0, ActiveRun(mlflow'), TRUE))
  /\ UNCHANGED <<env, heap, locals, files>>

Construct ==
  /\ Do("RandomForestClassifier")
  /\ LET n == CASE Cur.src = "var" -> locals.hyper["n_estimators"]
                [] Cur.src = "params" -> locals.params[1].n_estimators
                [] OTHER -> Cur.val
         d == CASE Cur.src = "var" -> locals.hyper["max_depth"]
                [] Cur.src = "params" -> locals.params[1].max_depth
                [] OTHER -> Cur.val2
         rs == IF Cur.key = "random_state" THEN locals.hyper["random_state"] ELSE Cur.val3
     IN locals' = [locals EXCEPT !.model =
                     <<[n_estimators |-> n, max_depth |-> d, random_state |-> rs,
                        fitted |-> FALSE, classes |-> {}]>>]
  /\ Step(Ev(0))
  /\ UNCHANGED <<env, heap, mlflow, files>>

Fit ==
  /\ Do("fit")
  /\ locals' = [locals EXCEPT !.model[1].fitted = TRUE,
                              !.model[1].classes =
                                 Range(Labels(Val("y_train"), target(script)))]
  /\ Step(Ev(0))
  /\ UNCHANGED <<env, heap, mlflow, files>>

\* The classifier is opaque: it answers any of the classes it was trained on.
Predict ==
  /\ Do("predict")
  /\ \E p \in [1..Len(Val("X_test")) -> locals.model[1].classes] :
       locals' = [locals EXCEPT !.y_pred = p]
  /\ Step(Ev(0))
  /\ UNCHANGED <<env, heap, mlflow, files>>

Metric ==
  /\ Do("metric")
  /\ LET y_true == Labels(Val("y_test"), target(script))
         y_pred == locals.y_pred
     IN CASE Cur.key = "accuracy" ->
               locals' = [locals EXCEPT !.metrics =
                            ("accuracy" :> accuracy_score(y_true, y_pred)) @@ @]
          [] Cur.key = "precision" ->
               locals' = [locals EXCEPT !.metrics =
                            ("precision" :> precision_score(y_true, y_pred, Cur.src)) @@ @]
          [] Cur.key = "recall" ->
               locals' = [locals EXCEPT !.metrics =
                            ("recall" :> recall_score(y_true, y_pred, Cur.src)) @@ @]
          [] OTHER ->
               locals' = [locals EXCEPT !.cm = <<confusion_matrix(y_true, y_pred)>>]
  /\ Step(Ev(0))
  /\ UNCHANGED <<env, heap, mlflow, files>>

LogMetric ==
  /\ Do("log_metric")
  /\ mlflow' = log_metric(mlflow, Cur.key, locals.metrics[Cur.key])
  /\ Step(Event(Cur, 0, ActiveRun(mlflow'), TRUE))
  /\ UNCHANGED <<env, heap, locals, files>>

Savefig ==
  /\ Do("savefig")
  /\ files' = files \cup {Cur.key}
  /\ Step(Ev(0))
  /\ UNCHANGED <<env, heap, locals, mlflow>>

LogArtifact ==
  /\ Do("log_artifact")
  /\ mlflow' = log_artifact(mlflow, Cur.key)
  /\ Step(Event(Cur, 0, ActiveRun(mlflow'), TRUE))
  /\ UNCHANGED <<env, heap, locals, files>>

LogModel ==
  /\ Do("log_model")
  /\ mlflow' = log_model(mlflow, locals.model[1], Cur.key)
  /\ Step(Event(Cur, 0, ActiveRun(mlflow'), TRUE))
  /\ UNCHANGED <<env, heap, locals, files>>

LogText ==
  /\ Do("log_text")
  /\ mlflow' = log_artifact(mlflow, Cur.key)
  /\ Step(Event(Cur, 0, ActiveRun(mlflow'), TRUE))
  /\ UNCHANGED <<env, heap, locals, files>>

\* run_id = mlflow.active_run().info.run_id; model_uri = f"runs:/{run_id}/model"
ActiveRunId ==
  /\ Do("active_run")
  /\ locals' = [locals EXCEPT !.run_id = ActiveRun(mlflow)]
  /\ Step(Ev(ActiveRun(mlflow)))
  /\ UNCHANGED <<env, heap, mlflow, files>>

RegisterModel ==
  /\ Do("register_model")
  /\ \E v \in 1..MaxVersion :
       /\ mlflow' = register_model(mlflow, locals.run_id, Cur.key, v)
       /\ locals' = [locals EXCEPT !.registered = <<[name |-> Cur.key, version |-> v]>>]
  /\ Step(Ev(locals.run_id))
  /\ UNCHANGED <<env, heap, files>>

Open ==
  /\ Do("open")
  /\ locals' = [locals EXCEPT !.f = Cur.key]
  /\ Step(Ev(0))
  /\ UNCHANGED <<env, heap, mlflow, files>>

\* The unpickled model is whatever the file holds: some fitted binary classifier.
PickleLoad ==
  /\ Do("pickle_load")
  /\ locals' = [locals EXCEPT !.model =
                  <<[n_estimators |-> 0, max_depth |-> 0, random_state |-> 0,
                     fitted |-> TRUE, classes |-> {0, 1}]>>]
  /\ Step(Ev(0))
  /\ UNCHANGED <<env, heap, mlflow, files>>

\* A variant that hands back the same object instead of a copy.
frame_alias(h, ref) == [heap |-> h, ref |-> ref]

\* frame.copy(): a new object with the same rows.
frame_copy(h, ref) == [heap |-> Append(h, h[ref]), ref |-> Len(h) + 1]

Copy ==
  /\ Do("copy")
  /\ LET c == frame_copy(heap, env[Cur.src])
     IN /\ heap' = c.heap
        /\ env' = [env EXCEPT ![Cur.key] = c.ref]
  /\ Step(Ev(0))
  /\ UNCHANGED <<locals, mlflow, files>>

\* results[name] = ...: a Series is aligned on the index, an array is positional.
SetCol ==
  /\ Do("setcol")
  /\ LET fr == Val("results")
         value(k) ==
           CASE Cur.src = "predictions" -> locals.y_pred[k]
             [] Cur.src = "y_test" -> Aligned(Val("y_test"), fr[k].index, target(script))
             [] OTHER ->
                  IF fr[k].index \in Range(Index(Val("X_test")))
                  THEN Aligned(Val(Cur.src), fr[k].index, Cur.key)
                  ELSE -1
     IN heap' = [heap EXCEPT ![env["results"]] =
                   SetColumn(fr, Cur.key, [k \in 1..Len(fr) |-> value(k)])]
  /\ Step(Ev(0))
  /\ UNCHANGED <<env, locals, mlflow, files>>

IsImpostor(row) == row.cols["Predicted"] = 1 /\ row.cols["Actual"] = 0

Filter ==
  /\ Do("filter")
  /\ heap' = Append(heap, SelectSeq(Val(Cur.src), IsImpostor))
  /\ env' = [env EXCEPT ![Cur.key] = Len(heap) + 1]
  /\ Step(Ev(0))
  /\ UNCHANGED <<locals, mlflow, files>>

-----------------------------------------------------------------------------
(* Control flow: the loop, the with-block, try/except and exceptions.       *)

\* A variant that keeps handing out the first entry.
enumerate_first(grid, it) == [i |-> it, params |-> grid[1]]

\* enumerate(grid): the item handed out after it items have been taken.
enumerate(grid, it) == [i |-> it, params |-> grid[it + 1]]

For ==
  /\ Do("for")
  /\ IF locals.it < Len(param_grid)
     THEN /\ locals' = [locals EXCEPT !.i = enumerate(param_grid, locals.it).i,
                                      !.params = <<enumerate(param_grid, locals.it).params>>,
                                      !.it = @ + 1]
          /\ Jump(pc + 1)
     ELSE /\ locals' = locals
          /\ Jump(Following(Prog, pc, "end_for") + 1)
  /\ UNCHANGED <<env, heap, mlflow, files>>

EndFor ==
  /\ Do("end_for")
  /\ Jump(Preceding(Prog, pc, "for"))
  /\ UNCHANGED <<env, heap, locals, mlflow, files>>

\* Leaving the with-block normally ends the run.
ExitWith ==
  /\ Do("exit_with")
  /\ mlflow' = end_run(mlflow, ExitStatus(FALSE))
  /\ Step(Event([Cur EXCEPT !.key = ExitStatus(FALSE)], 0, ActiveRun(mlflow), TRUE))
  /\ UNCHANGED <<env, heap, locals, files>>

Try ==
  /\ Do("try")
  /\ Jump(pc + 1)
  /\ UNCHANGED <<env, heap, locals, mlflow, files>>

\* The protected statements ran through: the handler is skipped.
SkipExcept ==
  /\ Do("except")
  /\ Jump(Following(Prog, pc, "end_try"))
  /\ UNCHANGED <<env, heap, locals, mlflow, files>>

EndTry ==
  /\ Do("end_try")
  /\ Jump(pc + 1)
  /\ UNCHANGED <<env, heap, locals, mlflow, files>>

\* The call at pc raises instead of returning.
Raise ==
  /\ outcome = "running"
  /\ exc = "none"
  /\ pc <= Len(Prog)
  /\ Cur.op \in ExternalOps \/ ~Ready(Cur)
  /\ exc' = "raised"
  /\ trace' = Append(trace, Event(Cur, 0, ActiveRun(mlflow), FALSE))
  /\ UNCHANGED <<script, pc, outcome, env, heap, locals, mlflow, files, prev>>

\* except Exception as e: the handler takes the exception.
Catch ==
  /\ outcome = "running"
  /\ exc = "raised"
  /\ InTry(Prog, pc)
  /\ exc' = "none"
  /\ pc' = Following(Prog, pc, "except") + 1
  /\ trace' = Append(trace, Event(Prog[Following(Prog, pc, "except")], 0,
                                  ActiveRun(mlflow), TRUE))
  /\ UNCHANGED <<script, outcome, env, heap, locals, mlflow, files, prev>>

\* A variant in which the run is started without a with-block: an exception
\* leaves it as it is.
ExitWithRaisedNoEnd ==
  /\ outcome = "running"
  /\ exc = "raised"
  /\ InWith(Prog, pc)
  /\ pc' = Following(Prog, pc, "exit_with") + 1
  /\ UNCHANGED <<script, exc, outcome, trace, env, heap, locals, mlflow, files, prev>>

\* An exception leaves the with-block: the run is ended and the exception goes on.
ExitWithRaised ==
  /\ outcome = "running"
  /\ exc = "raised"
  /\ InWith(Prog, pc)
  /\ mlflow' = end_run(mlflow, ExitStatus(TRUE))
  /\ pc' = Following(Prog, pc, "exit_with") + 1
  /\ trace' = Append(trace, Event([Prog[Following(Prog, pc, "exit_with")]
                                     EXCEPT !.key = ExitStatus(TRUE)],
                                  0, ActiveRun(mlflow), TRUE))
  /\ UNCHANGED <<script, exc, outcome, env, heap, locals, files, prev>>

\* Nothing is left to handle the exception: the script ends with it.
Propagate ==
  /\ outcome = "running"
  /\ exc = "raised"
  /\ ~InTry(Prog, pc)
  /\ ~InWith(Prog, pc)
  /\ outcome' = "error"
  /\ UNCHANGED <<script, pc, exc, trace, env, heap, locals, mlflow, files, prev>>

\* The last statement has run.
Finish ==
  /\ outcome = "running"
  /\ exc = "none"
  /\ pc > Len(Prog)
  /\ outcome' = "ok"
  /\ UNCHANGED <<script, pc, exc, trace, env, heap, locals, mlflow, files, prev>>

Fresh(s) ==
  /\ script = s
  /\ pc = 1
  /\ exc = "none"
  /\ outcome = "running"
  /\ trace = <<>>
  /\ env = [v \in FrameVars |-> 0]
  /\ heap = <<>>
  /\ locals = NoLocals
  /\ mlflow = NoClient
  /\ files = {}

\* What an execution leaves for the comparison with the next one.
Held ==
  [script |-> script, loaded |-> locals.loaded,
   X_train |-> Val("X_train"), X_test |-> Val("X_test"),
   y_train |-> Val("y_train"), y_test |-> Val("y_test")]

\* A script is started again in a new process: nothing but the outside world
\* is carried over.
NewExecution ==
  /\ outcome \in {"ok", "error"}
  /\ \E s \in Scripts :
       /\ script' = s
       /\ pc' = 1
       /\ exc' = "none"
       /\ outcome' = "running"
       /\ trace' = <<>>
       /\ env' = [v \in FrameVars |-> 0]
       /\ heap' = <<>>
       /\ locals' = NoLocals
       /\ mlflow' = NoClient
       /\ files' = {}
  /\ prev' = IF \A v \in SplitVars : Bound(v) THEN <<Held>> ELSE prev

Init ==
  /\ \E s \in Scripts : Fresh(s)
  /\ prev = <<>>

Next ==
  \/ SetTrackingUri \/ SetExperiment \/ PrintLine \/ Local
  \/ ReadCsv \/ LoadIris \/ Derive \/ SelectColumns \/ Alias \/ Split
  \/ StartRun \/ Assign \/ LogParam \/ LogParams \/ Construct \/ Fit \/ Predict
  \/ Metric \/ LogMetric \/ Savefig \/ LogArtifact \/ LogModel \/ LogText
  \/ ActiveRunId \/ RegisterModel \/ Open \/ PickleLoad \/ Copy \/ SetCol \/ Filter
  \/ For \/ EndFor \/ ExitWith \/ Try \/ SkipExcept \/ EndTry
  \/ Raise \/ Catch \/ ExitWithRaised \/ Propagate \/ Finish \/ NewExecution

Spec == Init /\ [][Next]_vars

\* A script is a sequential program: its next statement is always run, and
\* every call it makes returns or raises.
FairSpec == Spec /\ WF_vars(Next)

-----------------------------------------------------------------------------
(* Properties.  trace holds every call issued, whether it returned (ok) or  *)
(* raised; run is the run that was active when it was issued.               *)

Calls == DOMAIN trace

Returned(i, ops) == trace[i].op \in ops /\ trace[i].ok

FetchOps == {"read_csv", "load_iris"}

ConfigOps == {"assign", "RandomForestClassifier"}

ScoreOps == {"predict", "metric"}

ResultLogOps == {"log_metric", "log_artifact", "log_text", "log_model"}

ParamLogOps == {"log_param", "log_params"}

\* The step of the sequence fetch, split, configure, fit, score, log, register
\* a call belongs to (0: none of them).
Stage(e) ==
  CASE e.op \in FetchOps -> 1
    [] e.op = "train_test_split" -> 2
    [] e.op \in ConfigOps -> 3
    [] e.op = "fit" -> 4
    [] e.op \in ScoreOps -> 5
    [] e.op \in LogOps -> 6
    [] e.op = "register_model" -> 7
    [] OTHER -> 0

\* C1 as stated: the calls of an execution follow the one order fetch, split,
\* configure hyperparameters, fit, score, log, register; in particular no
\* logging call is issued before fit and scoring.
C1_LinearOrder ==
  \A i, j \in Calls :
    (i < j /\ Stage(trace[i]) > 0 /\ Stage(trace[j]) > 0)
      => Stage(trace[i]) <= Stage(trace[j])

\* C1 amended: fetch precedes split, split precedes fit and predict; within a
\* run the classifier is configured before fit, fit precedes predict (where the
\* script fits at all), predict precedes the metrics, and every log_metric,
\* log_artifact, log_text and log_model call comes after that run's fit and
\* predict and after the metric it logs was computed; nothing is logged or
\* computed after register_model.  log_param/log_params are issued before the
\* run's fit, except in example3_model_registry.py, where they follow it.
C1_OrderWithinRun ==
  \A j \in Calls :
    LET e == trace[j]
        SameRun(i) == trace[i].run = e.run
    IN /\ e.op = "train_test_split" => \E i \in 1..(j - 1) : Returned(i, FetchOps)
       /\ e.op \in {"fit", "predict"} =>
            \E i \in 1..(j - 1) : Returned(i, {"train_test_split"})
       /\ e.op = "fit" =>
            \E i \in 1..(j - 1) :
              /\ Returned(i, {"RandomForestClassifier"})
              /\ SameRun(i)
              /\ \A k \in (i + 1)..(j - 1) : trace[k].op # "fit"
       /\ (e.op = "predict" /\ script # "Pokemon_detective") =>
            \E i \in 1..(j - 1) : Returned(i, {"fit"}) /\ SameRun(i)
       /\ e.op = "metric" =>
            \E i \in 1..(j - 1) : Returned(i, {"predict"}) /\ SameRun(i)
       /\ e.op \in ResultLogOps =>
            \E k \in 1..(j - 1) :
              /\ Returned(k, {"predict"}) /\ SameRun(k)
              /\ \E i \in 1..(k - 1) : Returned(i, {"fit"}) /\ SameRun(i)
       /\ e.op = "log_metric" =>
            \E i \in 1..(j - 1) :
              Returned(i, {"metric"}) /\ SameRun(i) /\ trace[i].key = e.key
       /\ e.op = "register_model" =>
            \A k \in Calls :
              (k > j) => trace[k].op \notin LogOps \cup ScoreOps \cup ConfigOps \cup {"fit"}
       /\ e.op \in ParamLogOps =>
            IF script = "example3_model_registry"
            THEN \E i \in 1..(j - 1) : Returned(i, {"metric"}) /\ SameRun(i)
            ELSE \A i \in 1..(j - 1) : ~(trace[i].op = "fit" /\ SameRun(i))

\* Witness C1: a training script ran to its end with its model logged.
C1_Witness ==
  /\ script = "Legendary_pokemon_predictor"
  /\ outcome = "ok"
  /\ \E j \in Calls : Returned(j, {"log_model"})

\* C2 as stated: once a call has raised, no later statement is executed (only
\* the with-block is left, which ends the run) and the script does not end
\* normally.
C2_NoHandling ==
  \A j \in Calls :
    ~trace[j].ok =>
      /\ outcome # "ok"
      /\ \A k \in Calls : (k > j) => trace[k].op = "exit_with"

Caught(j) == script = "example3_model_registry" /\ trace[j].op = "register_model"

\* C2 amended: the same for every call but register_model in
\* example3_model_registry.py, whose exception the script catches; an exception
\* that ends the script was raised by the last call issued.
C2_Propagates ==
  /\ \A j \in Calls :
       (~trace[j].ok /\ ~Caught(j)) =>
         /\ outcome # "ok"
         /\ exc = "raised"
         /\ \A k \in Calls : (k > j) => trace[k].op = "exit_with"
  /\ outcome = "error" => \E j \in Calls : ~trace[j].ok /\ ~Caught(j)

\* Witness C2: a call inside a with-block raised and ended the script.
C2_Witness ==
  /\ outcome = "error"
  /\ \E j \in Calls : ~trace[j].ok /\ trace[j].op = "fit"
  /\ trace[Len(trace)].op = "exit_with"

FitCount == Cardinality({j \in Calls : Returned(j, {"fit"})})

\* C3 as stated: an execution fits exactly one classifier.
C3_SingleFit ==
  /\ FitCount <= 1
  /\ outcome = "ok" => FitCount = 1

ExpectedFits(s) ==
  CASE s = "example2_hyperparameter_tuning" -> 5
    [] s = "Pokemon_detective" -> 0
    [] OTHER -> 1

HardCoded(s) ==
  CASE s = "Legendary_pokemon_predictor" -> [n_estimators |-> 100, max_depth |-> 15]
    [] OTHER -> [n_estimators |-> 100, max_depth |-> 10]

\* C3 amended: Legendary_pokemon_predictor.py, example1_basic.py and
\* example3_model_registry.py fit once, with their one hard-coded hyperparameter
\* set; example2_hyperparameter_tuning.py fits five times, once per grid entry;
\* Pokemon_detective.py never fits.
C3_FitsPerScript ==
  /\ FitCount <= ExpectedFits(script)
  /\ outcome = "ok" => FitCount = ExpectedFits(script)
  /\ (ExpectedFits(script) = 1 /\ locals.model # <<>>) =>
       /\ locals.model[1].n_estimators = HardCoded(script).n_estimators
       /\ locals.model[1].max_depth = HardCoded(script).max_depth
  /\ (script = "Pokemon_detective" /\ locals.model # <<>>) => locals.model[1].n_estimators = 0

\* Witness C3: the tuning script ran to its end, having fitted more than once.
C3_Witness ==
  /\ script = "example2_hyperparameter_tuning"
  /\ outcome = "ok"
  /\ FitCount > 1

SplitDone == \A v \in SplitVars : Bound(v)

IndexSet(frame) == Range(Index(frame))

\* C4: every split uses test fraction 0.2 and seed 42, so the partition is a
\* function of the dataset: train and test rows are disjoint and cover the
\* dataset, labels go with their rows, an execution over the dataset of the
\* previous execution gets the same train and test rows (the same frames when
\* it is the same script), and so Pokemon_detective.py evaluates the rows
\* Legendary_pokemon_predictor.py held out.
C4_SplitDeterministic ==
  SplitDone =>
    /\ IndexSet(Val("X_train")) \cap IndexSet(Val("X_test")) = {}
    /\ IndexSet(Val("X_train")) \cup IndexSet(Val("X_test")) = IndexSet(locals.loaded[1])
    /\ Len(Val("X_train")) + Len(Val("X_test")) = Len(locals.loaded[1])
    /\ Index(Val("y_train")) = Index(Val("X_train"))
    /\ Index(Val("y_test")) = Index(Val("X_test"))
    /\ (prev # <<>> /\ prev[1].loaded = locals.loaded) =>
         /\ Index(prev[1].X_train) = Index(Val("X_train"))
         /\ Index(prev[1].X_test) = Index(Val("X_test"))
         /\ prev[1].y_train = Val("y_train")
         /\ prev[1].y_test = Val("y_test")
         /\ prev[1].script = script =>
              prev[1].X_train = Val("X_train") /\ prev[1].X_test = Val("X_test")

\* Witness C4: Pokemon_detective.py has split the dataset that the execution
\* of Legendary_pokemon_predictor.py before it had split, with rows on both sides.
C4_Witness ==
  /\ script = "Pokemon_detective"
  /\ SplitDone
  /\ prev # <<>>
  /\ prev[1].script = "Legendary_pokemon_predictor"
  /\ prev[1].loaded = locals.loaded
  /\ Len(Val("X_train")) >= 2

SixStats(cols) ==
  cols["HP"] + cols["Attack"] + cols["Defense"] + cols["Sp. Atk"] + cols["Sp. Def"]
    + cols["Speed"]

Derived == \E j \in Calls : Returned(j, {"derive"})

\* C5: in Pokemon_detective.py, once Total_Stats is derived every row of the
\* dataset carries it, equal to the sum of that row's six stats; the feature
\* matrix and the train and test sets exist only after that, and each of their
\* rows carries the Total_Stats of its own six stats.
C5_TotalStats ==
  script = "Pokemon_detective" =>
    /\ \A v \in {"X", "X_train", "X_test"} : Bound(v) => Derived
    /\ Derived => Len(Val("df")) = Len(locals.loaded[1])
    /\ \A v \in {"df", "X", "X_train", "X_test"} :
         (Bound(v) /\ Derived) =>
           \A k \in 1..Len(Val(v)) :
             /\ "Total_Stats" \in DOMAIN Val(v)[k].cols
             /\ Val(v)[k].cols["Total_Stats"] = SixStats(Val(v)[k].cols)

\* Witness C5: Pokemon_detective.py holds a test set whose rows have stats.
C5_Witness ==
  /\ script = "Pokemon_detective"
  /\ Bound("X_test")
  /\ Len(Val("X_test")) >= 1
  /\ Len(Val("X_train")) >= 2
  /\ Val("X_test")[1].cols["Speed"] > 0

Matrices == {"X", "y"} \cup SplitVars

\* C6: within an execution, once the feature matrix, the label vector or one of
\* the train/test subsets exists, no step changes its rows, columns or values
\* (Pokemon_detective.py adds its columns to the copy results).
C6_NoMutation ==
  [][\A v \in Matrices :
       (outcome = "running" /\ Bound(v)) => (Bound(v)' /\ Val(v)' = Val(v))]_vars

\* Witness C6: results carries the three added columns and X_test does not.
C6_Witness ==
  /\ script = "Pokemon_detective"
  /\ Bound("results")
  /\ Len(Val("results")) >= 1
  /\ {"Actual", "Predicted", "Name"} \subseteq DOMAIN Val("results")[1].cols
  /\ {"Actual", "Predicted", "Name"} \cap DOMAIN Val("X_test")[1].cols = {}

Registrations == {j \in Calls : trace[j].op = "register_model"}

Printed(line) == \E j \in Calls : trace[j].op = "print" /\ trace[j].line = line

\* C7: in example3_model_registry.py register_model is called in the one run
\* of the execution, after both parameters, the accuracy and the model were
\* logged to it, and with that run's id in the model URI.  Whether it raises
\* or returns, the script ends normally and the run is closed as FINISHED with
\* what was logged to it; the note is printed when it raised, the registered
\* name and version when it returned.
C7_Registration ==
  (script = "example3_model_registry" /\ Registrations # {}) =>
    \A j \in Registrations :
      LET r == trace[j].run
          Logged(op, key) ==
            \E i \in 1..(j - 1) : Returned(i, {op}) /\ trace[i].key = key /\ trace[i].run = r
      IN /\ Cardinality(Registrations) = 1
         /\ r = 1
         /\ Len(mlflow.runs) = 1
         /\ locals.run_id = r
         /\ trace[j].ok => trace[j].val = r
         /\ Logged("log_param", "n_estimators")
         /\ Logged("log_param", "max_depth")
         /\ Logged("log_metric", "accuracy")
         /\ Logged("log_model", "model")
         /\ mlflow.runs[r].explicit
         /\ mlflow.runs[r].params = [k \in {"n_estimators", "max_depth"} |->
                                       IF k = "n_estimators" THEN 100 ELSE 10]
         /\ DOMAIN mlflow.runs[r].metrics = {"accuracy"}
         /\ Len(mlflow.runs[r].models) = 1
         /\ outcome # "error"
         /\ exc = "raised" => j = Len(trace)
         /\ mlflow.runs[r].status \in {"RUNNING", "FINISHED"}
         /\ mlflow.runs[r].status = "RUNNING" <=> mlflow.active = <<r>>
         /\ outcome = "ok" =>
              /\ mlflow.runs[r].status = "FINISHED"
              /\ mlflow.active = <<>>
              /\ trace[j].ok =>
                   /\ \E i \in Calls :
                        /\ i > j
                        /\ trace[i].op = "print" /\ trace[i].line = 56
                        /\ trace[i].key = "iris_classifier"
                        /\ locals.registered # <<>>
                        /\ trace[i].val = locals.registered[1].version
                   /\ Printed(57) /\ ~Printed(59) /\ ~Printed(60)
              /\ ~trace[j].ok =>
                   /\ Printed(59) /\ Printed(60) /\ ~Printed(56) /\ ~Printed(57)
                   /\ mlflow.registry = <<>>

\* Witness C7: register_model raised and the script ended normally.
C7_Witness ==
  /\ script = "example3_model_registry"
  /\ outcome = "ok"
  /\ \E j \in Registrations : ~trace[j].ok

TuningRun(r) ==
  [k \in {"n_estimators", "max_depth"} |->
     IF k = "n_estimators" THEN param_grid[r].n_estimators ELSE param_grid[r].max_depth]

Running == {r \in 1..Len(mlflow.runs) : mlflow.runs[r].status = "RUNNING"}

\* In example2_hyperparameter_tuning.py at most one run is active at a time
\* and run r, named rf_tuning_run_r, is the run of grid entry r: its
\* parameters, the model trained while it is active and the model logged to it
\* are those of param_grid entry r; the loop takes at most five entries, and a
\* script that ends without an exception has created and closed exactly five
\* runs, each with its parameters, its accuracy and its model.
RunsPerGridEntry ==
  script = "example2_hyperparameter_tuning" =>
    /\ Len(mlflow.active) <= 1
    /\ Cardinality(Running) <= 1
    /\ Running = Range(mlflow.active)
    /\ locals.it <= 5
    /\ Len(mlflow.runs) <= locals.it
    /\ \A r \in 1..Len(mlflow.runs) :
         LET run == mlflow.runs[r]
         IN /\ run.name = "rf_tuning_run_" /\ run.num = r /\ run.explicit
            /\ r < Len(mlflow.runs) => run.status # "RUNNING"
            /\ run.params = EmptyFn \/ run.params = TuningRun(r)
            /\ Len(run.models) <= 1
            /\ \A k \in 1..Len(run.models) :
                 /\ run.models[k].n_estimators = param_grid[r].n_estimators
                 /\ run.models[k].max_depth = param_grid[r].max_depth
                 /\ run.models[k].fitted
                 /\ run.params = TuningRun(r)
                 /\ DOMAIN run.metrics = {"accuracy"}
            /\ run.status = "FINISHED" =>
                 /\ run.params = TuningRun(r)
                 /\ Len(run.models) = 1
    /\ \A j \in Calls :
         (trace[j].op \in {"fit", "predict", "metric"} /\ trace[j].ok /\ j = Len(trace)) =>
           /\ trace[j].run = Len(mlflow.runs)
           /\ locals.model[1].n_estimators = param_grid[trace[j].run].n_estimators
           /\ locals.model[1].max_depth = param_grid[trace[j].run].max_depth
    /\ outcome = "ok" =>
         /\ Len(mlflow.runs) = 5
         /\ \A r \in 1..5 : mlflow.runs[r].status = "FINISHED"
         /\ mlflow.active = <<>>
         /\ \A j \in Calls : trace[j].ok

Tuning == script = "example2_hyperparameter_tuning" /\ outcome = "running"

TuningEnded ==
  \/ outcome = "error"
  \/ outcome = "ok" /\ Len(mlflow.runs) = 5 /\ mlflow.active = <<>>

\* C8: example2_hyperparameter_tuning.py ends, and unless an exception ends it,
\* it ends having created exactly five runs, rf_tuning_run_1 to
\* rf_tuning_run_5 in grid order, never two of them active together, each
\* holding the parameters, accuracy and model of its own grid entry only.
C8_TuningRuns == [](RunsPerGridEntry) /\ (Tuning ~> TuningEnded)

\* Witness C8: the tuning script ended without an exception.
C8_Witness ==
  /\ script = "example2_hyperparameter_tuning"
  /\ outcome = "ok"
  /\ Len(mlflow.runs) = 5
  /\ mlflow.runs[5].params = TuningRun(5)

Closed(r, j) ==
  \E i \in 1..(j - 1) : trace[i].op = "exit_with" /\ trace[i].run = r

\* C9: every logging call is issued while a run started by the script's own
\* start_run is active, after set_tracking_uri and set_experiment, and never
\* to a run that was closed; every run the script starts is closed by the end
\* of the script, whether it ends normally or by an exception.
C9_LoggingInsideRun ==
  /\ \A j \in Calls :
       trace[j].op \in LogOps =>
         LET r == trace[j].run
         IN /\ r \in 1..Len(mlflow.runs)
            /\ mlflow.runs[r].explicit
            /\ \E i \in 1..(j - 1) : Returned(i, {"start_run"}) /\ trace[i].run = r
            /\ ~Closed(r, j)
            /\ \E i \in 1..(j - 1) : Returned(i, {"set_tracking_uri"})
            /\ \E i \in 1..(j - 1) : Returned(i, {"set_experiment"})
  /\ \A r \in 1..Len(mlflow.runs) : mlflow.runs[r].explicit
  /\ outcome \in {"ok", "error"} =>
       /\ mlflow.active = <<>>
       /\ \A r \in 1..Len(mlflow.runs) : mlflow.runs[r].status \in {"FINISHED", "FAILED"}

\* Witness C9: a logging call raised inside a run and the script ended with
\* that run closed as FAILED.
C9_Witness ==
  /\ outcome = "error"
  /\ \E j \in Calls : trace[j].op \in LogOps /\ ~trace[j].ok
  /\ Len(mlflow.runs) >= 1
  /\ mlflow.runs[Len(mlflow.runs)].status = "FAILED"

====
